---- MODULE Spec2Model ----
(***************************************************************************)
(* Lenstra's elliptic curve factorisation (inversionless ECM): the worker  *)
(* inversionless_ecm, the drivers ecm_singlethreaded / ecm_multithreaded   *)
(* and the arithmetic helpers they use.                                    *)
(*                                                                         *)
(* An Option<Integer> is a record [tag, val] with tag "Some" or "None";    *)
(* the third tag "Panic" is a thread that unwound instead of returning.    *)
(***************************************************************************)
EXTENDS Integers, Naturals, Sequences, FiniteSets, TLC

VARIABLES
    sieve,          \* eratosthenes: [pc, limit, primes, i]
    ilog,           \* integer_log : [pc, x, y, r, e, yy, d, m, ovf, ret]
    fpow,           \* fast_pow    : [pc, a, n, a_copy, n_copy, acc, ret]
    eqp,            \* MontgomeryPoint::equals: [pc, self, other, ret]
    args,           \* the driver call: [api, n, max_curves, b1, b2, sigma, nthreads, overflow_checks]
    primes,         \* the vector the driver builds with eratosthenes
    found_factor,   \* the shared AtomicBool
    pc,             \* per worker: where inversionless_ecm stands
    curve,          \* per worker: the local curve counter
    limit,          \* per worker: the local limit
    infinite,       \* per worker: the local infinite flag
    result,         \* per worker: what the thread ended with
    started,        \* per worker: curves begun (check passed), a history counter
    draws,          \* per worker: calls of randint, a history counter
    driver,         \* the driver: [pc, children, joined, found, ret]
    rint,           \* randint: [pc, n, ret]
    st1,            \* stage 1 of a curve: [pc, b1, b2, primes, p_i, k]
    lad,            \* montgomery_ladder: [pc, self, k, bv, b, q, p]
    st2             \* stage 2 of a curve: [pc, n, b1, b2, q, d, idx, points, b, r, s, t, ...]

pureVars == <<sieve, ilog, fpow, eqp>>
unitVars == <<rint, st1, lad, st2>>
ecmVars == <<args, primes, found_factor, pc, curve, limit, infinite, result,
             started, draws, driver>>
vars == <<sieve, ilog, fpow, eqp, args, primes, found_factor, pc, curve, limit,
          infinite, result, started, draws, driver, rint, st1, lad, st2>>

(***************************************************************************)
(* Bounds of the model.                                                    *)
(***************************************************************************)
MaxSieveLimit == 50     \* largest vector length given to eratosthenes
WordBits == 7           \* width of the machine word standing for u64
MaxPowBase == 5         \* largest base given to fast_pow
MaxPowExp == 8          \* largest exponent given to fast_pow
MaxEqMod == 5           \* largest modulus of the points given to equals
MaxN == 11              \* largest number given to the drivers
MaxB == 4               \* largest bound B2 given to the drivers
MaxCurveLimit == 2      \* largest finite max_curves given to the drivers
MaxThreads == 2         \* largest nthreads given to ecm_multithreaded
MaxCurveCount == 1      \* curves a run without max_curves may start
MaxRandN == 40          \* largest N whose sigma is drawn with randint
MaxStage1B == 10        \* largest B2 given to stage 1 run on its own
MaxLadderMod == 11       \* largest modulus of the points given to the ladder
MaxLadderK == 12         \* largest scalar given to the ladder
MaxStage2Mod == 7        \* largest modulus of the points given to stage 2
MaxStage2B == 9          \* largest B2 given to stage 2 run on its own

Word == 2 ^ WordBits

NoneV == [tag |-> "None", val |-> 0]
PanicV == [tag |-> "Panic", val |-> 0]
SomeV(v) == [tag |-> "Some", val |-> v]

Idle == [pc |-> "idle"]

\* e, with v evaluated first (an accumulator of a loop is a value at the
\* top of each pass, not a pending expression).
Strict(v, e) == IF v = v THEN e ELSE e

\* The driver and its workers when only a helper is run.
EcmIdle ==
    /\ args = Idle /\ primes = <<>> /\ found_factor = FALSE
    /\ pc = <<>> /\ curve = <<>> /\ limit = <<>> /\ infinite = <<>>
    /\ result = <<>> /\ started = <<>> /\ draws = <<>>
    /\ driver = Idle

\* The pieces of a curve when they are not run on their own.
UnitIdle == rint = Idle /\ st1 = Idle /\ lad = Idle /\ st2 = Idle

(***************************************************************************)
(* arith/modular_arithmetic.rs                                             *)
(***************************************************************************)
\* Integer::div_rem: quotient truncated towards zero, remainder with the
\* sign of the dividend (the divisor is positive everywhere it is used).
div_mod(a, modulo) ==
    IF a >= 0 THEN <<a \div modulo, a % modulo>>
              ELSE <<-((-a) \div modulo), -((-a) % modulo)>>

take_mod(a, modulo) ==
    LET rem == div_mod(a, modulo)[2]
    IN  IF rem < 0 THEN rem + modulo ELSE rem

multiply_mod(a, b, modulo) == take_mod(a * b, modulo)

add_mod(a, b, modulo) == take_mod(a + b, modulo)

subtract_mod(a, b, modulo) == take_mod(a - b, modulo)

\* Integer::invert_ref: None when a has no inverse, else the inverse in [0, modulo).
invert_mod(a, modulo) ==
    IF \E b \in 0..(modulo - 1) : (a * b) % modulo = 1
    THEN SomeV(CHOOSE b \in 0..(modulo - 1) : (a * b) % modulo = 1)
    ELSE NoneV

pow_mod(a, n, modulo) == take_mod(a ^ n, modulo)

\* Integer::gcd (non-negative; gcd(0, n) = n).
RECURSIVE Gcd(_, _)
Gcd(a, b) == IF b = 0 THEN a ELSE Gcd(b, a % b)

(***************************************************************************)
(* arith/misc.rs                                                           *)
(***************************************************************************)
\* f64::sqrt(v) as usize: the floor of the square root (exact for small v).
FloorSqrt(v) == CHOOSE s \in 0..v : s * s <= v /\ v < (s + 1) * (s + 1)

\* vec![true; limit]
AllTrue(lim) == [k \in 0..(lim - 1) |-> TRUE]

\* Lines 6-8: the three unconditional writes.
SieveHead(pvec) ==
    [k \in DOMAIN pvec |-> IF k \in {0, 1} THEN FALSE ELSE IF k = 2 THEN TRUE ELSE pvec[k]]

\* Lines 13-15: for j in (i*i..limit).step_by(2*i) { primes[j / 2] = false }
SieveStrike(pvec, i, lim) ==
    [k \in DOMAIN pvec |->
        IF \E j \in (i * i)..(lim - 1) : (j - i * i) % (2 * i) = 0 /\ j \div 2 = k
        THEN FALSE ELSE pvec[k]]

\* Lines 12-16: the body of the outer loop for one odd i.
SieveBody(pvec, i, lim) ==
    IF pvec[i \div 2] THEN SieveStrike(pvec, i, lim) ELSE pvec

RECURSIVE SieveLoop(_, _, _, _)
SieveLoop(pvec, i, slimit, lim) ==
    IF i >= slimit THEN pvec
    ELSE SieveLoop(SieveBody(pvec, i, lim), i + 2, slimit, lim)

\* eratosthenes(&mut primes, limit), the vector it leaves behind.
eratosthenes(pvec, lim) ==
    SieveLoop(SieveHead(pvec), 3, FloorSqrt(lim), lim)

RECURSIVE bits_amount(_)
bits_amount(n) == IF n = 0 THEN 0 ELSE 1 + bits_amount(n \div 2)

bits_amount_u64(n) == bits_amount(n)

\* bits(n): the digits of format!("{:b}", n), most significant first.
RECURSIVE bits(_)
bits(n) == IF n < 2 THEN <<n>> ELSE Append(bits(n \div 2), n % 2)

\* randint(rand, min, max): every value random_bits(max_bits - min_bits + 1)
\* + min_bits can take.
randint(min, max) ==
    LET min_bits == bits_amount(min)
        max_bits == bits_amount(max)
    IN  {rb + min_bits : rb \in 0..(2 ^ (max_bits - min_bits + 1) - 1)}

\* u64::pow (x^0 = 1 for every x, 0 included).
u64_pow(x, e) == IF e = 0 THEN 1 ELSE x ^ e

\* integer_log, lines 61-63: the locals before the loops.
ILStart(y, x) ==
    [pc |-> "outer", x |-> x, y |-> y, r |-> 0, e |-> 0, yy |-> y,
     d |-> 0, m |-> 0, ovf |-> FALSE, ret |-> <<>>]

\* Lines 64-66: the outer test; entering sets d = x, m = 1.
ILOuter(s) ==
    IF s.yy >= s.x THEN [s EXCEPT !.pc = "inner", !.d = s.x, !.m = 1]
    ELSE [s EXCEPT !.pc = "done", !.ret = <<s.e, s.r = 0 /\ s.yy = 1>>]

\* Bitwise or of two naturals (r = r | rem).
RECURSIVE BitOr(_, _)
BitOr(a, b) ==
    IF a = 0 THEN b ELSE IF b = 0 THEN a
    ELSE 2 * BitOr(a \div 2, b \div 2) + (IF a % 2 = 1 \/ b % 2 = 1 THEN 1 ELSE 0)

\* ILInner with `m *= 2` left out of the squaring arm.
ILInnerNoDouble(s) ==
    IF s.yy >= s.d
    THEN LET div == div_mod(s.yy, s.d)
             grow == div[1] > s.d
         IN  [s EXCEPT !.yy = div[1],
                       !.r = BitOr(s.r, div[2]),
                       !.e = s.e + s.m,
                       !.d = IF grow THEN (s.d * s.d) % Word ELSE s.d,
                       !.ovf = s.ovf \/ (grow /\ s.d * s.d >= Word)]
    ELSE [s EXCEPT !.pc = "outer"]

\* Lines 67-76: the inner test and one pass of the inner body; d *= d is
\* taken modulo the word and ovf remembers that the product left the word.
ILInner(s) ==
    IF s.yy >= s.d
    THEN LET div == div_mod(s.yy, s.d)
             grow == div[1] > s.d
         IN  [s EXCEPT !.yy = div[1],
                       !.r = BitOr(s.r, div[2]),
                       !.e = s.e + s.m,
                       !.d = IF grow THEN (s.d * s.d) % Word ELSE s.d,
                       !.m = IF grow THEN s.m * 2 ELSE s.m,
                       !.ovf = s.ovf \/ (grow /\ s.d * s.d >= Word)]
    ELSE [s EXCEPT !.pc = "outer"]

\* Lines 55-59: the two arms that do not loop.
ILEntry(y, x) ==
    IF x = 1 \/ y = 0
    THEN [ILStart(y, x) EXCEPT !.pc = "done", !.ret = <<>>]
    ELSE IF x \in 0..1
    THEN LET e == bits_amount_u64(y) - 1
         IN  [ILStart(y, x) EXCEPT !.pc = "done", !.e = e, !.ret = <<e, u64_pow(x, e) = y>>]
    ELSE ILStart(y, x)

ILStep(s) == IF s.pc = "outer" THEN ILOuter(s) ELSE ILInner(s)

RECURSIVE ILRun(_)
ILRun(s) == IF s.pc = "done" THEN s ELSE ILRun(ILStep(s))

\* integer_log(y, x): <<>> for None, <<e, exact>> for Some((e, exact)).
integer_log(y, x) == ILRun(ILEntry(y, x)).ret

\* fast_pow, lines 84-91: the copies and the a == 0 arm.
FPEntry(a, n) ==
    IF a = 0
    THEN [pc |-> "done", a |-> a, n |-> n, a_copy |-> a, n_copy |-> n, acc |-> 0, ret |-> a]
    ELSE [pc |-> "loop", a |-> a, n |-> n, a_copy |-> a, n_copy |-> n, acc |-> 1, ret |-> 0]

\* Lines 92-104: the loop test, one pass of the body, and the final multiply.
FPStep(s) ==
    IF s.n_copy > 1
    THEN IF s.n_copy % 2 = 0
         THEN [s EXCEPT !.a_copy = s.a_copy * s.a_copy, !.n_copy = s.n_copy \div 2]
         ELSE [s EXCEPT !.acc = s.acc * s.a_copy,
                        !.a_copy = s.a_copy * s.a_copy,
                        !.n_copy = (s.n_copy - 1) \div 2]
    ELSE [s EXCEPT !.pc = "done", !.acc = s.acc * s.a_copy, !.ret = s.acc * s.a_copy]

RECURSIVE FPRun(_)
FPRun(s) == IF s.pc = "done" THEN s ELSE FPRun(FPStep(s))

fast_pow(a, n) == FPRun(FPEntry(a, n)).ret

(***************************************************************************)
(* arith/montgomery_point.rs                                               *)
(***************************************************************************)
Point(x, z, a24, modulo) == [x |-> x, z |-> z, a24 |-> a24, modulo |-> modulo]

\* Lines 33-35: the block's value `false;` is a discarded expression
\* statement, so control falls through to the ratio comparison.
EqualsGuard(self, other) == TRUE

\* MontgomeryPoint::equals
equals(self, other) ==
    LET self_z_inverse == invert_mod(self.z, self.modulo)
        other_z_inverse == invert_mod(other.z, other.modulo)
    IN  /\ EqualsGuard(self, other)
        /\ self_z_inverse.tag = "Some"
        /\ other_z_inverse.tag = "Some"
        /\ multiply_mod(self.x, self_z_inverse.val, self.modulo)
             = multiply_mod(other.x, other_z_inverse.val, self.modulo)

\* MontgomeryPoint::new2; the unwrap() panics when 4 has no inverse.
new2(x, z, a, modulo) ==
    LET inv == invert_mod(4, modulo)
    IN  Point(x, z, multiply_mod(a + 2, inv.val, modulo), modulo)

\* MontgomeryPoint::addh (diff = self - other).
addh(self, other, diff) ==
    LET self_x_min_z == subtract_mod(self.x, self.z, self.modulo)
        self_x_plus_z == add_mod(self.x, self.z, self.modulo)
        other_x_min_z == subtract_mod(other.x, other.z, self.modulo)
        other_x_plus_z == add_mod(other.x, other.z, self.modulo)
        prod1 == multiply_mod(self_x_min_z, other_x_plus_z, self.modulo)
        prod2 == multiply_mod(self_x_plus_z, other_x_min_z, self.modulo)
        addition == add_mod(prod1, prod2, self.modulo)
        subtraction == subtract_mod(prod1, prod2, self.modulo)
        sqr1 == multiply_mod(addition, addition, self.modulo)
        sqr2 == multiply_mod(subtraction, subtraction, self.modulo)
    IN  Point(multiply_mod(diff.z, sqr1, self.modulo),
              multiply_mod(diff.x, sqr2, self.modulo),
              self.a24, self.modulo)

\* MontgomeryPoint::double
double(self) ==
    LET self_x_plus_z == add_mod(self.x, self.z, self.modulo)
        self_x_min_z == subtract_mod(self.x, self.z, self.modulo)
        u == self_x_plus_z * self_x_plus_z
        v == self_x_min_z * self_x_min_z
        diff == u - v
    IN  Point(multiply_mod(u, v, self.modulo),
              take_mod(diff * (v + self.a24 * diff), self.modulo),
              self.a24, self.modulo)

\* LadderStep with the '1' arm doubling q instead of p.
LadderStepDoublesQ(self, st, bit) ==
    LET q == st[1]
        p == st[2]
    IN  IF bit = 1 THEN <<addh(p, q, self), double(q)>>
                   ELSE <<double(q), addh(q, p, self)>>

\* Lines 105-111: one pass of the loop for the digit bit; st = <<q, p>>,
\* q the running multiple and p the one after it.
LadderStep(self, st, bit) ==
    LET q == st[1]
        p == st[2]
    IN  IF bit = 1 THEN <<addh(p, q, self), double(p)>>
                   ELSE <<double(q), addh(q, p, self)>>

\* Line 104: the passes for the digits bv[lo..hi] in order (bv indexed from
\* 1 here), the range split in halves to keep the evaluation shallow.
RECURSIVE LadderRange(_, _, _, _, _)
LadderRange(self, st, bv, lo, hi) ==
    Strict(st,
        IF lo > hi THEN st
        ELSE IF lo = hi THEN LadderStep(self, st, bv[lo])
        ELSE LET mid == (lo + hi) \div 2
             IN  LadderRange(self, LadderRange(self, st, bv, lo, mid), bv, mid + 1, hi))

\* MontgomeryPoint::montgomery_ladder, given bv = bits(k).
montgomery_ladder(self, bv) ==
    LadderRange(self, <<self, double(self)>>, bv, 2, Len(bv))[1]

(***************************************************************************)
(* lib.rs: one curve of inversionless_ecm                                  *)
(***************************************************************************)
U64Bits == 64

\* The digits of the u64 that a - b wraps to when a < b, for m = b - a:
\* 2^64 - m is the complement of m - 1 on 64 bits.
WrapBits(m) ==
    [i \in 1..U64Bits |->
        IF U64Bits - i >= 30 THEN 1 ELSE 1 - (((m - 1) \div (2 ^ (U64Bits - i))) % 2)]

\* Lines 111-123: one pass of the stage-1 loop for p_i; <<k>> after the
\* pass, <<>> when integer_log gives None.
Stage1Pass(pvec, b1, p_i, k) ==
    IF pvec[p_i]
    THEN LET a == integer_log(b1, p_i)
         IN  IF a = <<>> THEN <<>> ELSE <<k * fast_pow(p_i, a[1])>>
    ELSE <<k>>

\* Lines 110-124: the stage-1 exponent, <<>> when integer_log gives None.
RECURSIVE Stage1K(_, _, _, _)
Stage1K(pvec, b1, p_i, k) ==
    IF p_i > b1 THEN <<k>>
    ELSE LET nk == Stage1Pass(pvec, b1, p_i, k)
         IN  IF nk = <<>> THEN <<>> ELSE Stage1K(pvec, b1, p_i + 1, nk[1])

\* Lines 137-147: points[1..idx] of the stage-2 table.
RECURSIVE PointsTable(_, _)
PointsTable(q, idx) ==
    IF idx = 1 THEN <<double(q)>>
    ELSE IF idx = 2 THEN <<double(q), double(double(q))>>
    ELSE LET prev == PointsTable(q, idx - 1)
         IN  Append(prev, addh(prev[idx - 1], prev[1], prev[idx - 2]))

\* Lines 158-168: the inner loop over i in min..max for one giant step.
RECURSIVE Stage2Inner(_, _, _, _, _, _, _)
Stage2Inner(pvec, n, sel, beta, r, i, g) ==
    IF i >= r + 2 * Len(beta) + 1 THEN g
    ELSE IF pvec[i]
    THEN LET delta == (i - r) \div 2
             f == sel + beta[delta]
         IN  Stage2Inner(pvec, n, sel, beta, r, i + 1, multiply_mod(g, f, n))
    ELSE Stage2Inner(pvec, n, sel, beta, r, i + 1, g)

\* Lines 155-172: one giant step; <<r, s, t, g>> for the next one.
Stage2GiantStep(pvec, n, points, beta, r, s, t, g) ==
    LET d == Len(points)
        alpha == take_mod(s.x * s.z, n)
        sel == (s.x - points[d].x) * (s.z + points[d].z) - alpha
        g2 == Stage2Inner(pvec, n, sel, beta, r, r + 2, g)
    IN  <<r + 2 * d, addh(s, points[d], t), s, g2>>

\* Lines 154-173: the giant steps r = b, b + 2d, ... < b2.
RECURSIVE Stage2Loop(_, _, _, _, _, _, _, _, _)
Stage2Loop(pvec, n, b2, points, beta, r, s, t, g) ==
    Strict(<<s, t, g>>,
        IF r >= b2 THEN g
        ELSE LET nx == Stage2GiantStep(pvec, n, points, beta, r, s, t, g)
             IN  Stage2Loop(pvec, n, b2, points, beta, nx[1], nx[2], nx[3], nx[4]))

\* Line 151: the digits of the u64 b - 2 * d, wrapped when b < 2 * d (a
\* build without overflow checks).
Stage2TBits(b, d) == IF b < 2 * d THEN WrapBits(2 * d - b) ELSE bits(b - 2 * d)

Factor(f) == [tag |-> "Factor", val |-> f]
Continue == [tag |-> "Continue", val |-> 0]
ReturnNone == [tag |-> "ReturnNone", val |-> 0]
Unwind == [tag |-> "Panic", val |-> 0]

\* Lines 92 and 128-133, 176-181: what each return site hands back.
NotInvertibleSite(a, n) == Factor(Gcd(a, n))

GcdSite(g, n, otherwise) == IF 1 < g /\ g < n THEN Factor(g) ELSE otherwise

\* Lines 135-181: stage 2 from the stage-1 point q.
Stage2(pvec, n, b1, b2, q, overflow_checks) ==
    LET d == FloorSqrt(b2)
        b == b1 - 1
    IN  IF d < 2 THEN Unwind                         \* points[2] is out of range
        ELSE IF b < 2 * d /\ overflow_checks THEN Unwind    \* b - 2 * d underflows
        ELSE LET points == PointsTable(q, d)
                 beta == [i \in 1..d |-> multiply_mod(points[i].x, points[i].z, n)]
                 t == montgomery_ladder(q, Stage2TBits(b, d))
                 s == montgomery_ladder(q, bits(b))
                 g == Stage2Loop(pvec, n, b2, points, beta, b, s, t, 1)
             IN  GcdSite(Gcd(g, n), n, Continue)

\* Lines 79-182: one pass of the curve loop for the chosen sigma.
Curve(pvec, n, b1, b2, sigma, overflow_checks) ==
    LET v == multiply_mod(4, sigma, n)
        u == subtract_mod(sigma * sigma, 5, n)
        diff == subtract_mod(v, u, n)
        u_cubed == pow_mod(u, 3, n)
        a == 4 * (u_cubed * v)
        inv == invert_mod(a, n)
    IN  IF inv.tag = "None" THEN NotInvertibleSite(a, n)
        ELSE IF invert_mod(4, n).tag = "None" THEN Unwind
        ELSE LET c == take_mod(pow_mod(diff, 3, n) * (3 * u + v) * inv.val - 2, n)
                 q0 == new2(u_cubed, pow_mod(v, 3, n), c, n)
                 k == Stage1K(pvec, b1, 2, 1)
             IN  IF k = <<>> THEN ReturnNone
                 ELSE LET q == montgomery_ladder(q0, bits(k[1]))
                          g == Gcd(q.z, n)
                      IN  GcdSite(g, n, Stage2(pvec, n, b1, b2, q, overflow_checks))

\* Lines 195-197 and 223-225: the length of the primes vector.
PrimesLimit(b2) == b2 + 2 * FloorSqrt(b2) + 1

\* Lines 199-200 and 227-228: the vector both drivers hand to the worker.
DriverPrimes(b2) == eratosthenes(AllTrue(PrimesLimit(b2)), PrimesLimit(b2))

(***************************************************************************)
(* lib.rs: the drivers and the worker loop                                 *)
(***************************************************************************)
Workers == 0..(MaxThreads - 1)

Single == "ecm_singlethreaded"
Multi == "ecm_multithreaded"

OddN == {n \in 5..MaxN : n % 2 = 1}

ArgSet ==
    {[api |-> api, n |-> n, max_curves |-> mc, b1 |-> b1, b2 |-> b2, sigma |-> sg,
      nthreads |-> t, overflow_checks |-> oc] :
        api \in {Single, Multi}, n \in OddN,
        mc \in {NoneV} \cup {SomeV(l) : l \in 0..MaxCurveLimit},
        b1 \in 2..MaxB, b2 \in 2..MaxB,
        sg \in {NoneV} \cup {SomeV(sv) : sv \in 6..(MaxN - 1)},
        t \in 0..MaxThreads, oc \in BOOLEAN}

\* Curve on the drivers' vector, tabulated once for every call and every
\* sigma the model can meet.
CurveTable ==
    [k \in {<<n, b1, b2, sv, oc>> : n \in OddN, b1 \in 2..MaxB, b2 \in 2..MaxB,
                                    sv \in 3..(MaxN - 1), oc \in BOOLEAN} |->
        IF k[2] <= k[3] THEN Curve(DriverPrimes(k[3]), k[1], k[2], k[3], k[4], k[5])
        ELSE Continue]

\* What a caller may pass: B1 <= B2, sigma in [6, N - 1]; ecm_singlethreaded
\* takes no thread count. The two builds (with and without overflow checks)
\* are told apart only where b - 2 * d of line 151 can underflow.
ValidArgs(a) ==
    /\ a.b1 <= a.b2
    /\ a.sigma.tag = "Some" => a.sigma.val <= a.n - 1
    /\ a.api = Single => a.nthreads = 1
    /\ a.overflow_checks => (FloorSqrt(a.b2) >= 2 /\ a.b1 - 1 < 2 * FloorSqrt(a.b2))

\* Lines 246-257, one arm of the match on child.join().
JoinArmOverwrite(found, joined_result) ==
    IF joined_result.tag = "Panic" THEN found ELSE joined_result

JoinArm(found, joined_result) ==
    IF joined_result.tag = "Some" THEN joined_result ELSE found

\* Line 61: found_factor.load(Ordering::Relaxed), read as the latest value
\* in the flag's modification order.
FlagLoadNever == FALSE

FlagLoad == found_factor

\* Lines 72-73: the sigma arm ends the loop after this curve; <<limit, infinite>>.
SigmaArmKeeps(lim, inf) == <<lim, inf>>

SigmaArm(lim, inf) == <<0, FALSE>>

\* Lines 47-54: the locals of inversionless_ecm on entry, for worker w.
Enter(w) ==
    /\ pc' = [pc EXCEPT ![w] = "top"]
    /\ curve' = [curve EXCEPT ![w] = 0]
    /\ limit' = [limit EXCEPT ![w] = IF args.max_curves.tag = "Some"
                                     THEN args.max_curves.val ELSE 0]
    /\ infinite' = [infinite EXCEPT ![w] = args.max_curves.tag = "None"]

\* Lines 195-200 and 223-229: the driver builds the primes vector.
BuildPrimes ==
    /\ driver.pc = "sieve"
    /\ primes' = DriverPrimes(args.b2)
    /\ driver' = [driver EXCEPT !.pc = IF args.api = Single THEN "call" ELSE "spawn"]
    /\ UNCHANGED <<args, found_factor, pc, curve, limit, infinite, result, started,
                   draws>>
    /\ UNCHANGED pureVars /\ UNCHANGED unitVars

\* Lines 203-212: ecm_singlethreaded calls the worker with a fresh flag.
Call ==
    /\ driver.pc = "call"
    /\ found_factor' = FALSE
    /\ Enter(0)
    /\ driver' = [driver EXCEPT !.pc = "wait", !.children = 1]
    /\ UNCHANGED <<args, primes, result, started, draws>>
    /\ UNCHANGED pureVars /\ UNCHANGED unitVars

\* ecm_singlethreaded returns what the worker returned (a panic unwinds through it).
Return ==
    /\ driver.pc = "wait"
    /\ pc[0] = "done"
    /\ driver' = [driver EXCEPT !.pc = "done", !.ret = result[0]]
    /\ UNCHANGED <<args, primes, found_factor, pc, curve, limit, infinite, result,
                   started, draws>>
    /\ UNCHANGED pureVars /\ UNCHANGED unitVars

\* Lines 235-245: one pass of the spawn loop.
Spawn ==
    /\ driver.pc = "spawn"
    /\ driver.children < args.nthreads
    /\ Enter(driver.children)
    /\ driver' = [driver EXCEPT !.children = driver.children + 1]
    /\ UNCHANGED <<args, primes, found_factor, result, started, draws>>
    /\ UNCHANGED pureVars /\ UNCHANGED unitVars

\* Line 246: all children spawned, found = None.
SpawnDone ==
    /\ driver.pc = "spawn"
    /\ driver.children = args.nthreads
    /\ driver' = [driver EXCEPT !.pc = "join", !.found = NoneV]
    /\ UNCHANGED <<args, primes, found_factor, pc, curve, limit, infinite, result,
                   started, draws>>
    /\ UNCHANGED pureVars /\ UNCHANGED unitVars

\* Lines 247-256: join the next child, in spawn order.
Join ==
    /\ driver.pc = "join"
    /\ driver.joined < driver.children
    /\ pc[driver.joined] = "done"
    /\ driver' = [driver EXCEPT !.found = JoinArm(driver.found, result[driver.joined]),
                                !.joined = driver.joined + 1]
    /\ UNCHANGED <<args, primes, found_factor, pc, curve, limit, infinite, result,
                   started, draws>>
    /\ UNCHANGED pureVars /\ UNCHANGED unitVars

\* Line 257.
DriverReturn ==
    /\ driver.pc = "join"
    /\ driver.joined = driver.children
    /\ driver' = [driver EXCEPT !.pc = "done", !.ret = driver.found]
    /\ UNCHANGED <<args, primes, found_factor, pc, curve, limit, infinite, result,
                   started, draws>>
    /\ UNCHANGED pureVars /\ UNCHANGED unitVars

\* Lines 56-63 and 185: the top of the curve loop: the loop test (None on
\* exit), curve += 1 and the check of the flag. A run without max_curves is
\* cut off once it has started MaxCurveCount curves: from then on it only
\* moves when the flag is set.
LoopTop(w) ==
    /\ pc[w] = "top"
    /\ IF curve[w] < limit[w] \/ infinite[w]
       THEN /\ (infinite[w] /\ curve[w] >= MaxCurveCount) => FlagLoad
            /\ curve' = [curve EXCEPT ![w] = curve[w] + 1]
            /\ IF FlagLoad
               THEN /\ pc' = [pc EXCEPT ![w] = "done"]
                    /\ result' = [result EXCEPT ![w] = NoneV]
                    /\ UNCHANGED started
               ELSE /\ pc' = [pc EXCEPT ![w] = "curve"]
                    /\ started' = [started EXCEPT ![w] = started[w] + 1]
                    /\ UNCHANGED result
       ELSE /\ pc' = [pc EXCEPT ![w] = "done"]
            /\ result' = [result EXCEPT ![w] = NoneV]
            /\ UNCHANGED <<curve, started>>
    /\ UNCHANGED <<args, primes, found_factor, limit, infinite, draws, driver>>
    /\ UNCHANGED pureVars /\ UNCHANGED unitVars

\* Lines 69-183: the sigma of this curve and the curve itself, up to the
\* return value; a factor is handed to the swap of the flag.
RunCurve(w) ==
    /\ pc[w] = "curve"
    /\ \E s \in IF args.sigma.tag = "Some" THEN {args.sigma.val}
                ELSE randint(6, args.n - 1) :
         LET out == CurveTable[<<args.n, args.b1, args.b2, s, args.overflow_checks>>]
         IN  /\ pc' = [pc EXCEPT ![w] = CASE out.tag = "Factor" -> "swap"
                                          [] out.tag = "Continue" -> "top"
                                          [] OTHER -> "done"]
             /\ result' = [result EXCEPT ![w] = CASE out.tag = "Factor" -> SomeV(out.val)
                                                  [] out.tag = "Panic" -> PanicV
                                                  [] OTHER -> NoneV]
    /\ IF args.sigma.tag = "Some"
       THEN /\ limit' = [limit EXCEPT ![w] = SigmaArm(limit[w], infinite[w])[1]]
            /\ infinite' = [infinite EXCEPT ![w] = SigmaArm(limit[w], infinite[w])[2]]
            /\ UNCHANGED draws
       ELSE /\ draws' = [draws EXCEPT ![w] = draws[w] + 1]
            /\ UNCHANGED <<limit, infinite>>
    /\ UNCHANGED <<args, primes, found_factor, curve, started, driver>>
    /\ UNCHANGED pureVars /\ UNCHANGED unitVars

\* Lines 90-92, 131-132, 179-180: found_factor.swap(true), then return Some.
Swap(w) ==
    /\ pc[w] = "swap"
    /\ found_factor' = TRUE
    /\ pc' = [pc EXCEPT ![w] = "done"]
    /\ UNCHANGED <<args, primes, curve, limit, infinite, result, started, draws, driver>>
    /\ UNCHANGED pureVars /\ UNCHANGED unitVars

InitEcm ==
    /\ args \in {a \in ArgSet : ValidArgs(a)}
    /\ primes = <<>>
    /\ found_factor = FALSE
    /\ pc = [w \in Workers |-> "unspawned"]
    /\ curve = [w \in Workers |-> 0]
    /\ limit = [w \in Workers |-> 0]
    /\ infinite = [w \in Workers |-> FALSE]
    /\ result = [w \in Workers |-> NoneV]
    /\ started = [w \in Workers |-> 0]
    /\ draws = [w \in Workers |-> 0]
    /\ driver = [pc |-> "sieve", children |-> 0, joined |-> 0, found |-> NoneV, ret |-> NoneV]
    /\ sieve = Idle /\ ilog = Idle /\ fpow = Idle /\ eqp = Idle /\ UnitIdle

WorkerStep == \E w \in Workers : LoopTop(w) \/ RunCurve(w) \/ Swap(w)

NextEcm ==
    \/ BuildPrimes \/ Call \/ Return \/ Spawn \/ SpawnDone \/ Join \/ DriverReturn
    \/ WorkerStep

Spec == InitEcm /\ [][NextEcm]_vars

(***************************************************************************)
(* The helpers run on their own: each specification draws the arguments    *)
(* and steps through the function.                                         *)
(***************************************************************************)
\* eratosthenes on a fresh all-true vector (lib.rs 199-200, 227-228).
SieveCall ==
    /\ sieve.pc = "call"
    /\ sieve' = [sieve EXCEPT !.pc = "loop", !.primes = SieveHead(sieve.primes), !.i = 3]
    /\ UNCHANGED <<ilog, fpow, eqp>> /\ UNCHANGED ecmVars /\ UNCHANGED unitVars

SieveIter ==
    /\ sieve.pc = "loop"
    /\ sieve.i < FloorSqrt(sieve.limit)
    /\ sieve' = [sieve EXCEPT !.primes = SieveBody(sieve.primes, sieve.i, sieve.limit),
                              !.i = sieve.i + 2]
    /\ UNCHANGED <<ilog, fpow, eqp>> /\ UNCHANGED ecmVars /\ UNCHANGED unitVars

SieveReturn ==
    /\ sieve.pc = "loop"
    /\ sieve.i >= FloorSqrt(sieve.limit)
    /\ sieve' = [sieve EXCEPT !.pc = "done"]
    /\ UNCHANGED <<ilog, fpow, eqp>> /\ UNCHANGED ecmVars /\ UNCHANGED unitVars

InitSieve ==
    /\ sieve \in {[pc |-> "call", limit |-> l, primes |-> AllTrue(l), i |-> 0] :
                    l \in 3..MaxSieveLimit}
    /\ ilog = Idle /\ fpow = Idle /\ eqp = Idle /\ EcmIdle /\ UnitIdle

NextSieve == SieveCall \/ SieveIter \/ SieveReturn

SpecSieve == InitSieve /\ [][NextSieve]_vars

IntegerLogStep ==
    /\ ilog.pc \in {"outer", "inner"}
    /\ ilog' = ILStep(ilog)
    /\ UNCHANGED <<sieve, fpow, eqp>> /\ UNCHANGED ecmVars /\ UNCHANGED unitVars

InitIntegerLog ==
    /\ ilog \in {ILEntry(y, x) : y \in 0..(Word - 1), x \in 0..(Word - 1)}
    /\ sieve = Idle /\ fpow = Idle /\ eqp = Idle /\ EcmIdle /\ UnitIdle

NextIntegerLog == IntegerLogStep

SpecIntegerLog == InitIntegerLog /\ [][NextIntegerLog]_vars

FastPowStep ==
    /\ fpow.pc = "loop"
    /\ fpow' = FPStep(fpow)
    /\ UNCHANGED <<sieve, ilog, eqp>> /\ UNCHANGED ecmVars /\ UNCHANGED unitVars

InitFastPow ==
    /\ fpow \in {FPEntry(a, n) : a \in 0..MaxPowBase, n \in 0..MaxPowExp}
    /\ sieve = Idle /\ ilog = Idle /\ eqp = Idle /\ EcmIdle /\ UnitIdle

NextFastPow == FastPowStep

SpecFastPow == InitFastPow /\ [][NextFastPow]_vars

EqPoints ==
    UNION {{Point(x, z, a, n) : x \in 0..(n - 1), z \in 0..(n - 1), a \in 0..(n - 1)} :
             n \in 2..MaxEqMod}

EqualsCall ==
    /\ eqp.pc = "call"
    /\ eqp' = [eqp EXCEPT !.pc = "done", !.ret = equals(eqp.self, eqp.other)]
    /\ UNCHANGED <<sieve, ilog, fpow>> /\ UNCHANGED ecmVars /\ UNCHANGED unitVars

InitEquals ==
    /\ eqp \in {[pc |-> "call", self |-> p, other |-> q, ret |-> FALSE] :
                  p \in EqPoints, q \in EqPoints}
    /\ sieve = Idle /\ ilog = Idle /\ fpow = Idle /\ EcmIdle /\ UnitIdle

NextEquals == EqualsCall

SpecEquals == InitEquals /\ [][NextEquals]_vars

\* lib.rs line 76: randint(&mut rand, 6, n - 1), one outcome of random_bits.
RandintCall ==
    /\ rint.pc = "call"
    /\ \E v \in randint(6, rint.n - 1) : rint' = [rint EXCEPT !.pc = "done", !.ret = v]
    /\ UNCHANGED <<st1, lad, st2>> /\ UNCHANGED pureVars /\ UNCHANGED ecmVars

InitRandint ==
    /\ rint \in {[pc |-> "call", n |-> n, ret |-> 0] : n \in 8..MaxRandN}
    /\ st1 = Idle /\ lad = Idle /\ st2 = Idle
    /\ sieve = Idle /\ ilog = Idle /\ fpow = Idle /\ eqp = Idle /\ EcmIdle

NextRandint == RandintCall

SpecRandint == InitRandint /\ [][NextRandint]_vars

\* lib.rs lines 195-200: the driver builds the vector stage 1 reads.
Stage1Primes ==
    /\ st1.pc = "sieve"
    /\ st1' = [st1 EXCEPT !.pc = "loop", !.primes = DriverPrimes(st1.b2), !.p_i = 2, !.k = 1]
    /\ UNCHANGED <<rint, lad, st2>> /\ UNCHANGED pureVars /\ UNCHANGED ecmVars

\* Lines 110-124: one pass of `for p_i in 2..(b1 + 1)`.
Stage1Iter ==
    /\ st1.pc = "loop"
    /\ st1.p_i <= st1.b1
    /\ LET nk == Stage1Pass(st1.primes, st1.b1, st1.p_i, st1.k)
       IN  st1' = IF nk = <<>> THEN [st1 EXCEPT !.pc = "none"]
                  ELSE [st1 EXCEPT !.k = nk[1], !.p_i = st1.p_i + 1]
    /\ UNCHANGED <<rint, lad, st2>> /\ UNCHANGED pureVars /\ UNCHANGED ecmVars

\* Line 125: the loop is over, k goes to montgomery_ladder.
Stage1Ladder ==
    /\ st1.pc = "loop"
    /\ st1.p_i > st1.b1
    /\ st1' = [st1 EXCEPT !.pc = "ladder"]
    /\ UNCHANGED <<rint, lad, st2>> /\ UNCHANGED pureVars /\ UNCHANGED ecmVars

InitStage1 ==
    /\ st1 \in {[pc |-> "sieve", b1 |-> b1, b2 |-> b2, primes |-> <<>>, p_i |-> 0, k |-> 0] :
                  b1 \in 2..MaxStage1B, b2 \in 2..MaxStage1B}
    /\ st1.b1 <= st1.b2
    /\ rint = Idle /\ lad = Idle /\ st2 = Idle
    /\ sieve = Idle /\ ilog = Idle /\ fpow = Idle /\ eqp = Idle /\ EcmIdle

NextStage1 == Stage1Primes \/ Stage1Iter \/ Stage1Ladder

SpecStage1 == InitStage1 /\ [][NextStage1]_vars

\* The affine x of a point with z invertible.
AffineX(pt) == multiply_mod(pt.x, invert_mod(pt.z, pt.modulo).val, pt.modulo)

\* The A of the curve B*y^2 = x^3 + A*x^2 + x a point lies on: a24 = (A + 2) / 4.
CurveA(pt) == take_mod(4 * pt.a24 - 2, pt.modulo)

\* x^3 + A*x^2 + x at the point's affine x: the B for which (x, 1) is on the curve.
CurveB(pt) ==
    LET x == AffineX(pt)
    IN  take_mod(x * x * x + CurveA(pt) * x * x + x, pt.modulo)

\* The points the ladder is run on: prime modulus, x and z nonzero, the
\* curve nonsingular (A^2 # 4, B # 0), so the point is not of order 2.
LadderPoints ==
    {pt \in UNION {{Point(x, z, a, n) : x \in 1..(n - 1), z \in 1..(n - 1), a \in 0..(n - 1)} :
                     n \in {m \in 3..MaxLadderMod : \A j \in 2..(m - 1) : m % j # 0}} :
        /\ take_mod(CurveA(pt) * CurveA(pt) - 4, pt.modulo) # 0
        /\ CurveB(pt) # 0}

\* The group law of B*y^2 = x^3 + A*x^2 + x over Z/n, n prime, on affine
\* points <<x, y>>, with <<>> the point at infinity.
AffineAdd(p1, p2, ca, cb, n) ==
    IF p1 = <<>> THEN p2
    ELSE IF p2 = <<>> THEN p1
    ELSE IF p1[1] = p2[1] /\ (p1[2] + p2[2]) % n = 0 THEN <<>>
    ELSE LET lam == IF p1[1] = p2[1]
                    THEN multiply_mod(3 * p1[1] * p1[1] + 2 * ca * p1[1] + 1,
                                      invert_mod(2 * cb * p1[2], n).val, n)
                    ELSE multiply_mod(take_mod(p2[2] - p1[2], n),
                                      invert_mod(take_mod(p2[1] - p1[1], n), n).val, n)
             x3 == take_mod(cb * lam * lam - ca - p1[1] - p2[1], n)
         IN  <<x3, take_mod(lam * (p1[1] - x3) - p1[2], n)>>

\* [m](x, 1) for the point pt = (x : 1) of its curve.
RECURSIVE AffineMultiple(_, _)
AffineMultiple(pt, m) ==
    IF m = 0 THEN <<>>
    ELSE AffineAdd(AffineMultiple(pt, m - 1), <<AffineX(pt), 1>>,
                   CurveA(pt), CurveB(pt), pt.modulo)

\* The points stage 2 is run on: those whose double is not the 2-torsion
\* point (0, 0), the difference the table build hands to addh.
Stage2Points ==
    {pt \in LadderPoints :
        /\ pt.modulo <= MaxStage2Mod
        /\ AffineMultiple(pt, 2) # <<>>
        /\ AffineMultiple(pt, 2)[1] # 0}

\* montgomery_point.rs lines 101-103: q, p and the digits of k.
LadderCall ==
    /\ lad.pc = "call"
    /\ lad' = [lad EXCEPT !.pc = "loop", !.q = lad.self, !.p = double(lad.self),
                          !.bv = bits(lad.k), !.b = 1]
    /\ UNCHANGED <<rint, st1, st2>> /\ UNCHANGED pureVars /\ UNCHANGED ecmVars

\* Lines 104-112: one pass of `for b in 1..bv.len()` (bv[b] is bv[b + 1] here).
LadderIter ==
    /\ lad.pc = "loop"
    /\ lad.b < Len(lad.bv)
    /\ LET st == LadderStep(lad.self, <<lad.q, lad.p>>, lad.bv[lad.b + 1])
       IN  lad' = [lad EXCEPT !.q = st[1], !.p = st[2], !.b = lad.b + 1]
    /\ UNCHANGED <<rint, st1, st2>> /\ UNCHANGED pureVars /\ UNCHANGED ecmVars

\* Line 113: the loop is over, q is returned.
LadderReturn ==
    /\ lad.pc = "loop"
    /\ lad.b >= Len(lad.bv)
    /\ lad' = [lad EXCEPT !.pc = "done", !.ret = lad.q]
    /\ UNCHANGED <<rint, st1, st2>> /\ UNCHANGED pureVars /\ UNCHANGED ecmVars

InitLadder ==
    /\ lad \in {[pc |-> "call", self |-> pt, k |-> k, bv |-> <<>>, b |-> 0,
                  q |-> pt, p |-> pt, ret |-> pt] :
                    pt \in LadderPoints, k \in 1..MaxLadderK}
    /\ rint = Idle /\ st1 = Idle /\ st2 = Idle
    /\ sieve = Idle /\ ilog = Idle /\ fpow = Idle /\ eqp = Idle /\ EcmIdle

NextLadder == LadderCall \/ LadderIter \/ LadderReturn

SpecLadder == InitLadder /\ [][NextLadder]_vars

\* lib.rs lines 137-147: the table points[1..d] and the products beta.
Stage2Table ==
    /\ st2.pc = "table"
    /\ LET points == PointsTable(st2.q, st2.d)
       IN  st2' = [st2 EXCEPT !.pc = "scalars", !.points = points,
                              !.beta = [i \in 1..st2.d |->
                                          multiply_mod(points[i].x, points[i].z, st2.q.modulo)]]
    /\ UNCHANGED <<rint, st1, lad>> /\ UNCHANGED pureVars /\ UNCHANGED ecmVars

\* Lines 149-152: g = 1, b = b1 - 1, t and s; b - 2 * d panics in a build
\* with overflow checks when b < 2 * d, and wraps in one without.
Stage2Scalars ==
    /\ st2.pc = "scalars"
    /\ LET b == st2.b1 - 1
       IN  st2' = IF b < 2 * st2.d /\ st2.overflow_checks
                  THEN [st2 EXCEPT !.pc = "panic", !.b = b, !.underflow = TRUE]
                  ELSE [st2 EXCEPT !.pc = "giant", !.b = b, !.r = b, !.g = 1,
                                   !.underflow = b < 2 * st2.d,
                                   !.t = montgomery_ladder(st2.q, Stage2TBits(b, st2.d)),
                                   !.s = montgomery_ladder(st2.q, bits(b))]
    /\ UNCHANGED <<rint, st1, lad>> /\ UNCHANGED pureVars /\ UNCHANGED ecmVars

\* Lines 154-173: one pass of `for r in (b..b2).step_by(2 * d)`.
Stage2Giant ==
    /\ st2.pc = "giant"
    /\ st2.r < st2.b2
    /\ LET nx == Stage2GiantStep(DriverPrimes(st2.b2), st2.q.modulo, st2.points, st2.beta,
                                 st2.r, st2.s, st2.t, st2.g)
       IN  st2' = [st2 EXCEPT !.r = nx[1], !.s = nx[2], !.t = nx[3], !.g = nx[4]]
    /\ UNCHANGED <<rint, st1, lad>> /\ UNCHANGED pureVars /\ UNCHANGED ecmVars

\* Line 174: the loop is over, g goes to the gcd.
Stage2Gcd ==
    /\ st2.pc = "giant"
    /\ st2.r >= st2.b2
    /\ st2' = [st2 EXCEPT !.pc = "done", !.g = Gcd(st2.g, st2.q.modulo)]
    /\ UNCHANGED <<rint, st1, lad>> /\ UNCHANGED pureVars /\ UNCHANGED ecmVars

\* Stage 2 on a point q with d = floor(sqrt(b2)) >= 2, in either build.
InitStage2 ==
    /\ st2 \in {[pc |-> "table", q |-> pt, b1 |-> b1, b2 |-> b2, d |-> FloorSqrt(b2),
                  overflow_checks |-> oc, points |-> <<>>, beta |-> <<>>, b |-> 0, r |-> 0,
                  s |-> pt, t |-> pt, g |-> 0, underflow |-> FALSE] :
                    pt \in Stage2Points,
                    b1 \in 2..MaxStage2B, b2 \in 4..MaxStage2B, oc \in BOOLEAN}
    /\ st2.b1 <= st2.b2
    /\ rint = Idle /\ st1 = Idle /\ lad = Idle
    /\ sieve = Idle /\ ilog = Idle /\ fpow = Idle /\ eqp = Idle /\ EcmIdle

NextStage2 == Stage2Table \/ Stage2Scalars \/ Stage2Giant \/ Stage2Gcd

SpecStage2 == InitStage2 /\ [][NextStage2]_vars

(***************************************************************************)
(* Properties of the drivers and the worker.                               *)
(***************************************************************************)
ProperFactor(r, n) == r.tag = "Some" => (1 < r.val /\ r.val < n /\ n % r.val = 0)

\* C1: with a supplied sigma in [6, N - 1], whatever inversionless_ecm,
\* ecm_singlethreaded or ecm_multithreaded returns as Some(f) has 1 < f < N
\* and N mod f = 0, at each of the three return sites.
C1_ReturnedFactorIsProper ==
    args.sigma.tag = "Some" =>
        /\ \A w \in Workers : pc[w] = "done" => ProperFactor(result[w], args.n)
        /\ driver.pc = "done" => ProperFactor(driver.ret, args.n)

\* C2: in ecm_multithreaded, while and after the workers are joined, the
\* recorded factor is None when no joined worker returned a factor and is
\* otherwise the result of a joined worker that returned one; the driver
\* returns it after joining every worker.
C2_DriverReturnsAWorkersFactor ==
    (args.api = Multi /\ driver.pc \in {"join", "done"}) =>
        LET finders == {w \in 0..(driver.joined - 1) : result[w].tag = "Some"}
        IN  /\ finders = {} => driver.found = NoneV
            /\ finders # {} => \E w \in finders : driver.found = result[w]
            /\ driver.pc = "done" =>
                  /\ driver.joined = args.nthreads
                  /\ driver.ret = driver.found

\* Two workers: the first returned a factor, the second panicked after it,
\* and the driver returned the first one's factor.
C2_Witness ==
    /\ args.api = Multi /\ args.nthreads = 2 /\ driver.pc = "done"
    /\ result[0].tag = "Some" /\ result[1].tag = "Panic"
    /\ driver.ret = result[0]

\* C3, as stated: the flag stays true, a peer at its check with the flag
\* set returns None there, and every worker that returns once the flag is
\* set returns no factor.
C3_AllPeersReturnNoFactor ==
    [][/\ found_factor => found_factor'
       /\ \A w \in Workers :
            /\ (found_factor /\ pc[w] = "top" /\ pc'[w] # "top") =>
                  (pc'[w] = "done" /\ result'[w] = NoneV /\ started'[w] = started[w])
            /\ (found_factor /\ pc[w] # "done" /\ pc'[w] = "done") =>
                  result'[w].tag # "Some"]_vars

\* C3, amended: the flag stays true; a peer whose check at the top of the
\* curve loop loads the flag set returns None at that check; no curve is
\* started once the flag is set (a peer inside a curve finishes it and may
\* itself return a factor).
C3_FlagStaysAndObserversStop ==
    [][/\ found_factor => found_factor'
       /\ found_factor => started' = started
       /\ \A w \in Workers :
            (found_factor /\ pc[w] = "top" /\ pc'[w] # "top") =>
                (pc'[w] = "done" /\ result'[w] = NoneV)]_vars

\* A peer that ran one curve, came back to the check, found the flag set
\* and returned None without starting its second curve.
C3_Witness ==
    /\ args.api = Multi /\ found_factor
    /\ \E w \in Workers :
         /\ pc[w] = "done" /\ result[w] = NoneV
         /\ started[w] = 1 /\ curve[w] = 2

\* Lines 188-213 over lines 56-183: what ecm_singlethreaded returns when
\* sigma is supplied.
SingleWithSigma(a) ==
    IF a.max_curves.tag = "Some" /\ a.max_curves.val <= 0 THEN NoneV
    ELSE LET out == CurveTable[<<a.n, a.b1, a.b2, a.sigma.val, a.overflow_checks>>]
         IN  CASE out.tag = "Factor" -> SomeV(out.val)
               [] out.tag = "Panic" -> PanicV
               [] OTHER -> NoneV

\* C4: when sigma is supplied or T <= 1, ecm_multithreaded runs exactly one
\* worker and returns what ecm_singlethreaded returns on the same arguments.
C4_MultiDegradesToSingle ==
    (args.api = Multi /\ driver.pc = "done"
        /\ (args.sigma.tag = "Some" \/ args.nthreads <= 1)) =>
        /\ driver.children = 1
        /\ args.sigma.tag = "Some" => driver.ret = SingleWithSigma(args)

\* C5, as stated: with sigma supplied and the flag false on entry the worker
\* has run exactly one curve when it returns, whatever max_curves is; with
\* sigma absent every curve started has drawn its own sigma.
C5_SigmaRunsExactlyOneCurve ==
    /\ (args.api = Single /\ args.sigma.tag = "Some" /\ pc[0] = "done") =>
          started[0] = 1
    /\ \A w \in Workers :
          args.sigma.tag = "None" =>
              draws[w] = started[w] - (IF pc[w] = "curve" THEN 1 ELSE 0)

\* C5, amended: with sigma supplied the worker draws nothing and starts at
\* most one curve; when it returns it has run exactly one, unless max_curves
\* is Some(0) (no curve at all) or its first check found the flag set; with
\* sigma absent every curve started has drawn its own sigma.
C5_SigmaRunsOneCurveUnlessBudgetZero ==
    \A w \in Workers :
        /\ args.sigma.tag = "Some" =>
              /\ draws[w] = 0
              /\ started[w] <= 1
              /\ pc[w] = "done" =>
                    IF args.max_curves.tag = "Some" /\ args.max_curves.val <= 0
                    THEN started[w] = 0 /\ curve[w] = 0 /\ result[w] = NoneV
                    ELSE \/ started[w] = 1 /\ curve[w] = 1
                         \/ /\ started[w] = 0 /\ curve[w] = 1
                            /\ found_factor /\ result[w] = NoneV
        /\ args.sigma.tag = "None" =>
              draws[w] = started[w] - (IF pc[w] = "curve" THEN 1 ELSE 0)

\* ecm_singlethreaded with a sigma and no max_curves: one curve that found
\* nothing, then None.
C5_Witness ==
    /\ args.api = Single /\ args.sigma.tag = "Some" /\ args.max_curves = NoneV
    /\ driver.pc = "done" /\ driver.ret = NoneV
    /\ started[0] = 1 /\ curve[0] = 1 /\ draws[0] = 0

\* C6: without sigma a worker that ended has returned (None or a factor);
\* under a finite limit L it started at most L curves and returned None only
\* at the loop exit or at a set flag; without a limit it returned a factor
\* or saw the flag; and the driver that ended has returned as well.
C6_WorkerAlwaysReturns ==
    args.sigma.tag = "None" =>
        /\ \A w \in Workers :
              pc[w] = "done" =>
                  /\ result[w].tag \in {"None", "Some"}
                  /\ args.max_curves.tag = "Some" =>
                        /\ started[w] <= args.max_curves.val
                        /\ result[w].tag = "None" =>
                              (found_factor \/ started[w] = args.max_curves.val)
                  /\ args.max_curves.tag = "None" =>
                        (result[w].tag = "Some" \/ found_factor)
        /\ driver.pc = "done" => driver.ret.tag \in {"None", "Some"}

(***************************************************************************)
(* Properties of the helpers.                                              *)
(***************************************************************************)
IsPrime(i) == i >= 2 /\ \A k \in 2..(i - 1) : i % k # 0

\* C7: after eratosthenes on an all-true vector of L entries, primes[i] is
\* true exactly when i is prime, for every index 0 <= i < L.
C7_SieveMarksExactlyThePrimes ==
    sieve.pc = "done" =>
        \A i \in 0..(sieve.limit - 1) : sieve.primes[i] <=> IsPrime(i)

\* C8: for x >= 2 and y >= 1 integer_log(y, x) returns Some((e, exact)) with
\* x^e <= y < x^(e+1) and exact <=> x^e = y, and the divisor d never leaves
\* the machine word.
C8_IntegerLogBracketsY ==
    (ilog.pc # "idle" /\ ilog.x >= 2 /\ ilog.y >= 1) =>
        /\ ~ilog.ovf
        /\ ilog.d < Word
        /\ ilog.pc = "done" =>
              /\ Len(ilog.ret) = 2
              /\ ilog.x ^ ilog.ret[1] <= ilog.y
              /\ ilog.y < ilog.x ^ (ilog.ret[1] + 1)
              /\ ilog.ret[2] <=> (ilog.x ^ ilog.ret[1] = ilog.y)

\* integer_log(125, 5) = Some((3, true)), reached through a squared divisor.
C8_Witness ==
    /\ ilog.pc = "done" /\ ilog.y = 125 /\ ilog.x = 5
    /\ ilog.d = 25 /\ ilog.ret = <<3, TRUE>>

\* C9: fast_pow(a, n) is 0 for a = 0, 1 for n = 0, a for n = 1 and a^n in
\* general (a = 0 read first, as the code tests it first).
C9_FastPowIsPower ==
    fpow.pc = "done" =>
        /\ fpow.a = 0 => fpow.ret = 0
        /\ (fpow.a # 0 /\ fpow.n = 0) => fpow.ret = 1
        /\ (fpow.a # 0 /\ fpow.n = 1) => fpow.ret = fpow.a
        /\ fpow.a # 0 => fpow.ret = fpow.a ^ fpow.n

\* C10: equals(P, P') is true exactly when the two points share a24 and the
\* modulus, both Z are invertible and X/Z = X'/Z' modulo N.
C10_EqualsIffSameCurveAndRatio ==
    eqp.pc = "done" =>
        (eqp.ret <=>
            /\ eqp.self.a24 = eqp.other.a24
            /\ eqp.self.modulo = eqp.other.modulo
            /\ invert_mod(eqp.self.z, eqp.self.modulo).tag = "Some"
            /\ invert_mod(eqp.other.z, eqp.other.modulo).tag = "Some"
            /\ multiply_mod(eqp.self.x, invert_mod(eqp.self.z, eqp.self.modulo).val,
                            eqp.self.modulo)
                 = multiply_mod(eqp.other.x, invert_mod(eqp.other.z, eqp.other.modulo).val,
                                eqp.other.modulo))

(***************************************************************************)
(* Properties of the pieces of a curve.                                    *)
(***************************************************************************)
\* C11: for N >= 8 every sigma that randint(rand, 6, N - 1) returns lies in
\* [6, N - 1].
C11_DrawnSigmaInRange ==
    rint.pc = "done" => (6 <= rint.ret /\ rint.ret <= rint.n - 1)

\* The largest e with p^e <= b, and the product of p^e over the primes p
\* in lo..b.
LargestExponent(p, b) == CHOOSE e \in 0..b : p ^ e <= b /\ b < p ^ (e + 1)

RECURSIVE PrimePowerProduct(_, _)
PrimePowerProduct(lo, b) ==
    IF lo > b THEN 1
    ELSE (IF IsPrime(lo) THEN lo ^ LargestExponent(lo, b) ELSE 1)
            * PrimePowerProduct(lo + 1, b)

\* C12: on the vector the drivers build, the stage-1 exponent k handed to
\* montgomery_ladder is the product over the primes p <= B1 of p^(e_p),
\* e_p the largest e with p^e <= B1.
C12_Stage1ExponentIsPrimePowerProduct ==
    st1.pc = "ladder" => st1.k = PrimePowerProduct(2, st1.b1)

\* The projective (x : z) is the affine point aff, x-coordinate only.
IsMultiple(pt, aff) ==
    IF aff = <<>> THEN pt.z = 0 /\ pt.x # 0
    ELSE pt.z # 0 /\ pt.x = multiply_mod(aff[1], pt.z, pt.modulo)

\* The integer whose binary digits are the first len entries of bv.
RECURSIVE PrefixValue(_, _)
PrefixValue(bv, len) == IF len = 0 THEN 0 ELSE 2 * PrefixValue(bv, len - 1) + bv[len]

\* C13: for k >= 1, after each processed digit q = [m]P and p = [m + 1]P
\* for m the number made of the digits of k processed so far, and the ladder
\* returns [k]P; for k = 1 it makes no pass and returns P itself, for k = 3
\* it returns addh(double(P), P, P).
C13_LadderKeepsConsecutiveMultiples ==
    lad.pc \in {"loop", "done"} =>
        LET m == PrefixValue(lad.bv, lad.b)
        IN  /\ IsMultiple(lad.q, AffineMultiple(lad.self, m))
            /\ IsMultiple(lad.p, AffineMultiple(lad.self, m + 1))
            /\ lad.pc = "done" =>
                  /\ m = lad.k
                  /\ lad.ret = lad.q
                  /\ lad.k = 1 => (lad.b = 1 /\ lad.ret = lad.self)
                  /\ lad.k = 3 => lad.ret = addh(double(lad.self), lad.self, lad.self)

\* The ladder returned [11]P, a finite point, after three passes (1011).
C13_Witness ==
    /\ lad.pc = "done" /\ lad.k = 11 /\ lad.b = 4
    /\ lad.self.modulo = 7 /\ lad.ret.z # 0
    /\ IsMultiple(lad.ret, AffineMultiple(lad.self, 11))

\* C14, the table: points[i] = [2i]Q for 1 <= i <= d.
Stage2TableIsEvenMultiples ==
    st2.pc \in {"scalars", "giant", "done"} =>
        \A i \in 1..st2.d : IsMultiple(st2.points[i], AffineMultiple(st2.q, 2 * i))

\* C14, the giant steps: at the start of each one s = [r]Q and t = [r - 2d]Q.
Stage2GiantStepsAreMultiples ==
    (st2.pc = "giant" /\ st2.r < st2.b2) =>
        /\ st2.r >= 2 * st2.d
        /\ IsMultiple(st2.s, AffineMultiple(st2.q, st2.r))
        /\ IsMultiple(st2.t, AffineMultiple(st2.q, st2.r - 2 * st2.d))

\* C14: in stage 2 with 2 <= B1 <= B2 and d >= 2, points[i] = [2i]Q for
\* 1 <= i <= d, b - 2d is computed without underflow, and at the start of
\* every giant step s = [r]Q and t = [r - 2d]Q.
C14_Stage2DifferencesAreTrue ==
    /\ ~st2.underflow
    /\ Stage2TableIsEvenMultiples
    /\ Stage2GiantStepsAreMultiples

====
